---- MODULE Spec2Model ----
(***************************************************************************)
(* Model of the Game Boy CPU interpreter (src/src/cpu/interpreter.rs), its *)
(* instruction dispatcher (src/src/cpu/ops.rs) and the plain ROM cartridge *)
(* (src/src/cartridge/rom.rs).  The register file, the address bus and the *)
(* instruction decoder are not part of the sources at hand; they are       *)
(* modelled from the written specification and marked as such.             *)
(***************************************************************************)
EXTENDS Integers, Sequences, FiniteSets, TLC

VARIABLES
    regs,             \* Cpu.regs : a, b, c, d, e, f, h, l (u8), sp, pc (u16)
    ram,              \* general RAM of the bus, sparse: unlisted bytes are 0
    rom,              \* ROM.rom, sparse: unlisted bytes are 0
    data,             \* the byte buffer ROM::new was given
    running,          \* Cpu.running
    fault,            \* "none", or the panic that ended the program
    overflow_checks,  \* build profile: does integer overflow panic or wrap
    instr,            \* the instruction last fetched or dispatched
    pre,              \* registers and RAM before the last call
    lastCall,         \* the last call made on the Cpu or on the ROM
    steps             \* number of calls made so far

vars == <<regs, ram, rom, data, running, fault, overflow_checks, instr, pre,
          lastCall, steps>>

(* Bound on the number of calls in one behaviour. *)
MaxSteps == 2

(***************************************************************************)
(* Machine integers.                                                       *)
(***************************************************************************)
Byte == 0..255
Word == 0..65535
RomSize == 32768

Bit(v, n) == (v \div (2 ^ n)) % 2

BitAnd8(x, y) ==
    LET B(i) == Bit(x, i) * Bit(y, i)
    IN B(0) + 2*B(1) + 4*B(2) + 8*B(3) + 16*B(4) + 32*B(5) + 64*B(6) + 128*B(7)

BitOr8(x, y) ==
    LET B(i) == IF Bit(x, i) + Bit(y, i) > 0 THEN 1 ELSE 0
    IN B(0) + 2*B(1) + 4*B(2) + 8*B(3) + 16*B(4) + 32*B(5) + 64*B(6) + 128*B(7)

BitXor8(x, y) ==
    LET B(i) == (Bit(x, i) + Bit(y, i)) % 2
    IN B(0) + 2*B(1) + 4*B(2) + 8*B(3) + 16*B(4) + 32*B(5) + 64*B(6) + 128*B(7)

(***************************************************************************)
(* Operands and instructions (ops.rs).  Every operand is a record of the   *)
(* same shape: k is the variant, r the register or indirect form, v the    *)
(* immediate value.                                                        *)
(***************************************************************************)
Reg8(r)    == [k |-> "Reg", r |-> r, v |-> 0]
Reg16(r)   == [k |-> "Reg", r |-> r, v |-> 0]
Ind(m, n)  == [k |-> "Ind", r |-> m, v |-> n]
Imm(n)     == [k |-> "Imm", r |-> "", v |-> n]
NoArg      == [k |-> "None", r |-> "", v |-> 0]

Instruction(op, o, i) == [op |-> op, o |-> o, i |-> i]
NoInstr == Instruction("none", NoArg, NoArg)

(***************************************************************************)
(* Sparse byte arrays.                                                     *)
(***************************************************************************)
ByteAt(m, addr) == IF addr \in DOMAIN m THEN m[addr] ELSE 0

ByteStore(m, addr, val) ==
    [x \in ((DOMAIN m) \cup {addr}) \ (IF val = 0 THEN {addr} ELSE {}) |->
        IF x = addr THEN val ELSE m[x]]

(***************************************************************************)
(* cartridge/rom.rs                                                        *)
(***************************************************************************)
ROM_new(bytes) == bytes

ROM_read_u8(m, addr) == ByteAt(m, addr)

ROM_read_u8_panics(addr) == addr >= RomSize

ROM_write_u8_stores(m, addr, val) == ByteStore(m, addr, val)

ROM_write_u8(m, addr, val) == m

(***************************************************************************)
(* The address bus (Memory): the lower half of the address space is the    *)
(* cartridge, the upper half is RAM; 16-bit values are little-endian.      *)
(***************************************************************************)
Memory_read_u8(c, addr) ==
    IF addr < RomSize THEN ROM_read_u8(rom, addr) ELSE ByteAt(c.ram, addr)

Memory_write_u8(c, addr, val) ==
    IF addr < RomSize THEN c
    ELSE [c EXCEPT !.ram = ByteStore(@, addr, val)]

Memory_write_u16(c, addr, val) ==
    IF addr = 65535 /\ overflow_checks
    THEN [Memory_write_u8(c, addr, val % 256) EXCEPT !.fault = "overflow"]
    ELSE Memory_write_u8(Memory_write_u8(c, addr, val % 256),
                         (addr + 1) % 65536, val \div 256)

(***************************************************************************)
(* The register file's flags: Z, N, H, C are bits 7..4 of F; every flag    *)
(* write leaves the low nibble of F zero.                                  *)
(***************************************************************************)
FlagBit(flag) ==
    CASE flag = "Z" -> 7 [] flag = "N" -> 6 [] flag = "H" -> 5 [] flag = "C" -> 4

get_flag(c, flag) == Bit(c.regs.f, FlagBit(flag)) = 1

update_flag(c, flag, b) ==
    LET f    == c.regs.f
        mask == 2 ^ FlagBit(flag)
        cur  == Bit(f, FlagBit(flag))
        g    == f - cur * mask + (IF b THEN mask ELSE 0)
    IN [c EXCEPT !.regs.f = g - (g % 16)]

set_flag(c, flag) == update_flag(c, flag, TRUE)

reset_flag(c, flag) == update_flag(c, flag, FALSE)

(***************************************************************************)
(* interpreter.rs: helpers                                                 *)
(***************************************************************************)
read_reg_pair(h, l) == h * 256 + l

get_address(c, a) ==
    CASE a.r = "BC"    -> read_reg_pair(c.regs.b, c.regs.c)
      [] a.r = "DE"    -> read_reg_pair(c.regs.d, c.regs.e)
      [] a.r = "HL"    -> read_reg_pair(c.regs.h, c.regs.l)
      [] a.r = "C"     -> c.regs.c + 65280
      [] a.r = "Imm8"  -> a.v + 65280
      [] a.r = "Imm16" -> a.v

get_flag_bit(value, bit) == Bit(value, bit % 16) = 1

get_flag_bit_overflows(bit) == bit >= 16

mem_read_u8(c, addr) == Memory_read_u8(c, addr)

mem_read_u16_overflows(addr) == addr = 65535

mem_read_u16(c, addr) ==
    LET l == mem_read_u8(c, addr)
        h == mem_read_u8(c, (addr + 1) % 65536)
    IN l * 256 + h

mem_write_u8(c, addr, val) == Memory_write_u8(c, addr, val)

mem_write_u16(c, addr, val) == Memory_write_u16(c, addr, val)

Panic(c, kind) == [c EXCEPT !.fault = kind]

(***************************************************************************)
(* interpreter.rs: operand access                                          *)
(***************************************************************************)
read_arg8(c, arg) ==
    CASE arg.k = "Reg" ->
           (CASE arg.r = "A" -> c.regs.a [] arg.r = "B" -> c.regs.b
              [] arg.r = "C" -> c.regs.c [] arg.r = "D" -> c.regs.d
              [] arg.r = "E" -> c.regs.e [] arg.r = "F" -> c.regs.f
              [] arg.r = "H" -> c.regs.h [] arg.r = "L" -> c.regs.l)
      [] arg.k = "Ind" -> mem_read_u8(c, get_address(c, arg))
      [] arg.k = "Imm" -> arg.v

write_arg8(c, arg, val) ==
    CASE arg.k = "Reg" ->
           (CASE arg.r = "A" -> [c EXCEPT !.regs.a = val]
              [] arg.r = "B" -> [c EXCEPT !.regs.b = val]
              [] arg.r = "C" -> [c EXCEPT !.regs.c = val]
              [] arg.r = "D" -> [c EXCEPT !.regs.d = val]
              [] arg.r = "E" -> [c EXCEPT !.regs.e = val]
              [] arg.r = "F" -> [c EXCEPT !.regs.f = val]
              [] arg.r = "H" -> [c EXCEPT !.regs.h = val]
              [] arg.r = "L" -> [c EXCEPT !.regs.l = val])
      [] arg.k = "Ind" -> mem_write_u8(c, get_address(c, arg), val)
      [] OTHER -> Panic(c, "invalid_operand")

read_arg16_overflows(c, arg) ==
    arg.k = "Ind" /\ mem_read_u16_overflows(get_address(c, arg))

read_arg16(c, arg) ==
    CASE arg.k = "Reg" ->
           (CASE arg.r = "AF" -> read_reg_pair(c.regs.a, c.regs.f)
              [] arg.r = "BC" -> read_reg_pair(c.regs.b, c.regs.c)
              [] arg.r = "DE" -> read_reg_pair(c.regs.d, c.regs.e)
              [] arg.r = "HL" -> read_reg_pair(c.regs.h, c.regs.l)
              [] arg.r = "SP" -> c.regs.sp
              [] arg.r = "PC" -> c.regs.pc)
      [] arg.k = "Ind" -> mem_read_u16(c, get_address(c, arg))
      [] arg.k = "Imm" -> arg.v

write_arg16(c, arg, val) ==
    CASE arg.k = "Reg" ->
           (CASE arg.r = "AF" -> [c EXCEPT !.regs.a = val \div 256, !.regs.f = val % 256]
              [] arg.r = "BC" -> [c EXCEPT !.regs.b = val \div 256, !.regs.c = val % 256]
              [] arg.r = "DE" -> [c EXCEPT !.regs.d = val \div 256, !.regs.e = val % 256]
              [] arg.r = "HL" -> [c EXCEPT !.regs.h = val \div 256, !.regs.l = val % 256]
              [] arg.r = "SP" -> [c EXCEPT !.regs.sp = val]
              [] arg.r = "PC" -> [c EXCEPT !.regs.pc = val])
      [] arg.k = "Ind" -> mem_write_u16(c, get_address(c, arg), val)
      [] OTHER -> Panic(c, "invalid_operand")

(***************************************************************************)
(* interpreter.rs: the operations.  Each takes the Cpu (registers, RAM and *)
(* fault) and returns it as the operation leaves it; a panic keeps what    *)
(* was written before it.                                                  *)
(***************************************************************************)
ld(c, o, i) == write_arg8(c, o, read_arg8(c, i))

ld16(c, o, i) ==
    IF read_arg16_overflows(c, i) /\ overflow_checks THEN Panic(c, "overflow")
    ELSE write_arg16(c, o, read_arg16(c, i))

ld16_hlsp(c, offset) ==
    LET sp  == c.regs.sp
        raw == IF offset < 0 THEN sp - (65536 + offset) ELSE sp + offset
    IN IF (raw < 0 \/ raw > 65535) /\ overflow_checks THEN Panic(c, "overflow")
       ELSE [c EXCEPT !.regs.h = (raw % 65536) \div 256,
                      !.regs.l = (raw % 65536) % 256]

push(c, i) ==
    LET sp == c.regs.sp
    IN IF read_arg16_overflows(c, i) /\ overflow_checks THEN Panic(c, "overflow")
       ELSE LET c1 == mem_write_u16(c, sp, read_arg16(c, i))
            IN IF c1.fault # "none" THEN c1
               ELSE IF sp < 2 /\ overflow_checks THEN Panic(c1, "overflow")
               ELSE [c1 EXCEPT !.regs.sp = (sp - 2) % 65536]

pop(c, o) ==
    IF c.regs.sp + 2 > 65535 /\ overflow_checks THEN Panic(c, "overflow")
    ELSE LET c1 == [c EXCEPT !.regs.sp = (@ + 2) % 65536]
         IN IF mem_read_u16_overflows(c1.regs.sp) /\ overflow_checks
            THEN Panic(c1, "overflow")
            ELSE write_arg16(c1, o, mem_read_u16(c1, c1.regs.sp))

AddFlags(c, result) ==
    LET c1 == update_flag(c, "Z", result = 0)
        c2 == reset_flag(c1, "N")
        c3 == update_flag(c2, "H", get_flag_bit(result, 4))
    IN update_flag(c3, "C", get_flag_bit(result, 8))

add(c, i) ==
    LET result == c.regs.a + read_arg8(c, i)
    IN AddFlags([c EXCEPT !.regs.a = result % 256], result)

adc(c, i) ==
    LET result == c.regs.a + read_arg8(c, i) + (IF get_flag(c, "C") THEN 1 ELSE 0)
    IN AddFlags([c EXCEPT !.regs.a = result % 256], result)

sub(c, i) ==
    LET result == c.regs.a - read_arg8(c, i)
    IN IF result < 0 /\ overflow_checks THEN Panic(c, "overflow")
       ELSE [c EXCEPT !.regs.a = (result % 65536) % 256]

sbc(c, i) ==
    LET result == c.regs.a - read_arg8(c, i) - (IF get_flag(c, "C") THEN 1 ELSE 0)
    IN IF result < 0 /\ overflow_checks THEN Panic(c, "overflow")
       ELSE [c EXCEPT !.regs.a = (result % 65536) % 256]

LogicFlags(c, halfCarry) ==
    LET c1 == update_flag(c, "Z", c.regs.a = 0)
        c2 == reset_flag(c1, "N")
        c3 == update_flag(c2, "H", halfCarry)
    IN reset_flag(c3, "C")

and(c, i) == LogicFlags([c EXCEPT !.regs.a = BitAnd8(@, read_arg8(c, i))], TRUE)

or(c, i) == LogicFlags([c EXCEPT !.regs.a = BitOr8(@, read_arg8(c, i))], FALSE)

xor(c, i) == LogicFlags([c EXCEPT !.regs.a = BitXor8(@, read_arg8(c, i))], FALSE)

cp(c, i) ==
    LET result == c.regs.a - read_arg8(c, i)
    IN IF result < 0 /\ overflow_checks THEN Panic(c, "overflow")
       ELSE set_flag(update_flag(c, "Z", (result % 65536) = 0), "N")

inc(c, io) ==
    LET value == read_arg8(c, io)
    IN IF value = 255 /\ overflow_checks THEN Panic(c, "overflow")
       ELSE LET result == (value + 1) % 256
                c1 == write_arg8(c, io, result)
            IN IF c1.fault # "none" THEN c1
               ELSE update_flag(reset_flag(update_flag(c1, "Z", result = 0), "N"),
                                "H", get_flag_bit(result, 3))

dec(c, io) ==
    LET value == read_arg8(c, io)
    IN IF value = 0 /\ overflow_checks THEN Panic(c, "overflow")
       ELSE LET result == (value - 1) % 256
                c1 == write_arg8(c, io, result)
            IN IF c1.fault # "none" THEN c1
               ELSE set_flag(update_flag(c1, "Z", result = 0), "N")

add16(c, i) ==
    IF read_arg16_overflows(c, i) /\ overflow_checks THEN Panic(c, "overflow")
    ELSE LET result == read_reg_pair(c.regs.h, c.regs.l) + read_arg16(c, i)
             low    == result % 65536
             c1 == [c EXCEPT !.regs.h = low \div 256, !.regs.l = low % 256]
             c2 == reset_flag(c1, "N")
             c3 == update_flag(c2, "H", get_flag_bit(low, 12))
         IN IF get_flag_bit_overflows(16) /\ overflow_checks
            THEN Panic(c3, "overflow")
            ELSE update_flag(c3, "C", get_flag_bit(low, 16))

inc16(c, io) ==
    IF read_arg16_overflows(c, io) /\ overflow_checks THEN Panic(c, "overflow")
    ELSE LET value == read_arg16(c, io)
         IN IF value = 65535 /\ overflow_checks THEN Panic(c, "overflow")
            ELSE write_arg16(c, io, (value + 1) % 65536)

dec16(c, io) ==
    IF read_arg16_overflows(c, io) /\ overflow_checks THEN Panic(c, "overflow")
    ELSE LET value == read_arg16(c, io)
         IN IF value = 0 /\ overflow_checks THEN Panic(c, "overflow")
            ELSE write_arg16(c, io, (value - 1) % 65536)

cpl(c) == set_flag(set_flag([c EXCEPT !.regs.a = 255 - @], "N"), "H")

ccf(c) ==
    LET c1 == reset_flag(reset_flag(c, "N"), "H")
    IN update_flag(c1, "C", ~get_flag(c1, "C"))

scf(c) == set_flag(reset_flag(reset_flag(c, "N"), "H"), "C")

halt(c) == c

stop(c) == c

ShiftFlags(c, result) ==
    reset_flag(reset_flag(update_flag(c, "Z", result = 0), "N"), "H")

rlc(c, io) ==
    LET value  == read_arg8(c, io)
        c1     == update_flag(c, "C", get_flag_bit(value, 7))
        result == (value * 2) % 256
        c2     == write_arg8(c1, io, result)
    IN IF c2.fault # "none" THEN c2 ELSE ShiftFlags(c2, result)

rl(c, io) == rlc(c, io)

rrc(c, io) ==
    LET value  == read_arg8(c, io)
        c1     == update_flag(c, "C", get_flag_bit(value, 0))
        result == value \div 2
        c2     == write_arg8(c1, io, result)
    IN IF c2.fault # "none" THEN c2 ELSE ShiftFlags(c2, result)

rr(c, io) == rrc(c, io)

sla(c, io) ==
    LET result == read_arg8(c, io) * 2
        c1     == write_arg8(c, io, result % 256)
    IN IF c1.fault # "none" THEN c1
       ELSE update_flag(ShiftFlags(c1, result), "C", get_flag_bit(result, 8))

sra(c, io) ==
    LET value  == read_arg8(c, io)
        c1     == update_flag(c, "C", get_flag_bit(value, 0))
        result == value \div 2
        c2     == write_arg8(c1, io, result)
    IN IF c2.fault # "none" THEN c2 ELSE ShiftFlags(c2, result)

swap(c, io) ==
    LET initial == read_arg8(c, io)
    IN write_arg8(c, io, BitOr8(BitAnd8(initial \div 16, 15),
                                BitAnd8((initial * 16) % 256, 15)))

(* Operations whose body is empty in the interpreter. *)
EmptyOps == {"LDD", "LDI", "LDH", "ADD16SP", "NOP", "DAA", "EI", "DI", "SRL",
             "BIT", "SET", "RES", "JP", "JR", "CALL", "RST", "RET", "RETI"}

(***************************************************************************)
(* ops.rs: CpuOps::dispatch                                                *)
(***************************************************************************)
dispatch(c, ins) ==
    CASE ins.op = "LD"     -> ld(c, ins.o, ins.i)
      [] ins.op = "LD16"   -> ld16(c, ins.o, ins.i)
      [] ins.op = "LDHL16" -> ld16_hlsp(c, ins.i.v)
      [] ins.op = "PUSH"   -> push(c, ins.i)
      [] ins.op = "POP"    -> pop(c, ins.o)
      [] ins.op = "ADD"    -> add(c, ins.i)
      [] ins.op = "ADC"    -> adc(c, ins.i)
      [] ins.op = "SUB"    -> sub(c, ins.i)
      [] ins.op = "SBC"    -> sbc(c, ins.i)
      [] ins.op = "AND"    -> and(c, ins.i)
      [] ins.op = "OR"     -> or(c, ins.i)
      [] ins.op = "XOR"    -> xor(c, ins.i)
      [] ins.op = "CP"     -> cp(c, ins.i)
      [] ins.op = "INC"    -> inc(c, ins.o)
      [] ins.op = "DEC"    -> dec(c, ins.o)
      [] ins.op = "ADD16"  -> add16(c, ins.i)
      [] ins.op = "INC16"  -> inc16(c, ins.o)
      [] ins.op = "DEC16"  -> dec16(c, ins.o)
      [] ins.op = "CPL"    -> cpl(c)
      [] ins.op = "CCF"    -> ccf(c)
      [] ins.op = "SCF"    -> scf(c)
      [] ins.op = "HALT"   -> halt(c)
      [] ins.op = "STOP"   -> stop(c)
      [] ins.op = "RLC"    -> rlc(c, ins.o)
      [] ins.op = "RL"     -> rl(c, ins.o)
      [] ins.op = "RRC"    -> rrc(c, ins.o)
      [] ins.op = "RR"     -> rr(c, ins.o)
      [] ins.op = "SLA"    -> sla(c, ins.o)
      [] ins.op = "SRA"    -> sra(c, ins.o)
      [] ins.op = "SWAP"   -> swap(c, ins.o)
      [] ins.op \in EmptyOps -> c

(***************************************************************************)
(* Fetch and decode.  fetch_word is the interpreter's; the decoder is not  *)
(* among the sources and follows the instruction set's standard encoding   *)
(* for the opcodes below.  Every other opcode byte is a decode fault: the  *)
(* ROM images of this model hold only opcodes listed here or opcodes the   *)
(* instruction set leaves undefined (D3, DB, DD, ...).                     *)
(***************************************************************************)
fetch_word_overflows(c) == c.regs.pc = 65535

fetch_word(c) == [c EXCEPT !.regs.pc = (@ + 1) % 65536]

fetched_byte(c) == mem_read_u8(c, c.regs.pc)

TrailingBytes(opcode) ==
    CASE opcode \in {62, 198, 203} -> 1    \* LD A,n  ADD A,n  CB-prefix
      [] opcode = 1                -> 2    \* LD BC,nn
      [] OTHER                     -> 0

Decode(opcode, b1, b2) ==
    CASE opcode = 0   -> Instruction("NOP", NoArg, NoArg)
      [] opcode = 1   -> Instruction("LD16", Reg16("BC"), Imm(b2 * 256 + b1))
      [] opcode = 16  -> Instruction("STOP", NoArg, NoArg)
      [] opcode = 55  -> Instruction("SCF", NoArg, NoArg)
      [] opcode = 60  -> Instruction("INC", Reg8("A"), NoArg)
      [] opcode = 61  -> Instruction("DEC", Reg8("A"), NoArg)
      [] opcode = 62  -> Instruction("LD", Reg8("A"), Imm(b1))
      [] opcode = 118 -> Instruction("HALT", NoArg, NoArg)
      [] opcode = 128 -> Instruction("ADD", NoArg, Reg8("B"))
      [] opcode = 197 -> Instruction("PUSH", NoArg, Reg16("BC"))
      [] opcode = 198 -> Instruction("ADD", NoArg, Imm(b1))
      [] opcode = 209 -> Instruction("POP", Reg16("DE"), NoArg)
      [] opcode = 241 -> Instruction("POP", Reg16("AF"), NoArg)
      [] opcode = 203 /\ b1 = 7  -> Instruction("RLC", Reg8("A"), NoArg)
      [] opcode = 203 /\ b1 = 55 -> Instruction("SWAP", Reg8("A"), NoArg)
      [] OTHER -> NoInstr

(* fetch_instr: the Cpu after the fetches, and the instruction decoded. *)
fetch_instr(c) ==
    LET opcode == fetched_byte(c)
        n      == TrailingBytes(opcode)
        pc     == c.regs.pc
        b1     == mem_read_u8(c, (pc + 1) % 65536)
        b2     == mem_read_u8(c, (pc + 2) % 65536)
        ins    == Decode(opcode, b1, b2)
    IN IF pc + n >= 65535 /\ overflow_checks
       THEN [cpu |-> Panic([c EXCEPT !.regs.pc = 65535], "overflow"), ins |-> NoInstr]
       ELSE IF ins = NoInstr
       THEN [cpu |-> Panic([c EXCEPT !.regs.pc = (pc + 1) % 65536], "decode"),
             ins |-> NoInstr]
       ELSE [cpu |-> [c EXCEPT !.regs.pc = (pc + n + 1) % 65536], ins |-> ins]

(* Cpu::tick: the Cpu and the running flag after one tick. *)
tick(c, run) ==
    LET f == fetch_instr(c)
    IN [cpu     |-> f.cpu,
        ins     |-> f.ins,
        running |-> IF f.cpu.fault = "none" /\ f.cpu.regs.pc > 256
                    THEN FALSE ELSE run]

(***************************************************************************)
(* The inputs of the model.                                                *)
(***************************************************************************)
Registers(a, f, pc) ==
    [a |-> a, b |-> 18, c |-> 52, d |-> 0, e |-> 0, f |-> f,
     h |-> 192, l |-> 0, sp |-> 65534, pc |-> pc]

InitRegs ==
    { Registers(0, 0, 0),     Registers(15, 0, 256),  Registers(16, 16, 0),
      Registers(18, 0, 256),  Registers(133, 0, 0),   Registers(255, 16, 256) }

(* Cartridge images: the listed bytes, zero elsewhere. *)
RomImages ==
    { (0 :> 60) @@ (1 :> 118) @@ (2 :> 62) @@ (3 :> 15) @@
      (256 :> 197) @@ (257 :> 209) @@ (258 :> 16) @@ (32767 :> 255),
      (0 :> 1) @@ (1 :> 52) @@ (2 :> 18) @@ (3 :> 203) @@ (4 :> 55) @@
      (256 :> 211) @@ (257 :> 118) }

A   == Reg8("A")
HLi == Ind("HL", 0)
NA  == NoArg

Instrs ==
    { Instruction("LD", Reg8("B"), A),       Instruction("LD", HLi, A),
      Instruction("LD", A, HLi),             Instruction("LD", Reg8("F"), Imm(15)),
      Instruction("LD", Imm(1), A),          Instruction("LD", Ind("Imm16", 256), A),
      Instruction("LD16", Reg16("DE"), Reg16("BC")),
      Instruction("LD16", HLi, Reg16("BC")),
      Instruction("LD16", Reg16("DE"), HLi),
      Instruction("LD16", Reg16("DE"), Ind("Imm16", 0)),
      Instruction("LD16", Imm(0), Reg16("BC")),
      Instruction("LDHL16", NA, Imm(-2)),    Instruction("LDHL16", NA, Imm(2)),
      Instruction("PUSH", NA, Reg16("BC")),  Instruction("PUSH", NA, Reg16("AF")),
      Instruction("POP", Reg16("DE"), NA),   Instruction("POP", Reg16("AF"), NA),
      Instruction("POP", Imm(0), NA),
      Instruction("ADD", NA, Imm(0)),        Instruction("ADD", NA, Imm(1)),
      Instruction("ADD", NA, Imm(128)),      Instruction("ADD", NA, Reg8("B")),
      Instruction("ADC", NA, Imm(1)),        Instruction("SUB", NA, Imm(1)),
      Instruction("SBC", NA, Imm(1)),        Instruction("AND", NA, Imm(15)),
      Instruction("OR", NA, Imm(240)),       Instruction("XOR", NA, A),
      Instruction("CP", NA, Imm(16)),
      Instruction("INC", A, NA),             Instruction("DEC", A, NA),
      Instruction("INC", HLi, NA),           Instruction("DEC", HLi, NA),
      Instruction("INC", Imm(16), NA),       Instruction("DEC", Imm(16), NA),
      Instruction("ADD16", NA, Reg16("BC")), Instruction("INC16", Reg16("BC"), NA),
      Instruction("ADD16", NA, Reg16("HL")),
      Instruction("DEC16", Reg16("BC"), NA), Instruction("INC16", Imm(0), NA),
      Instruction("DEC16", Imm(1), NA),
      Instruction("CPL", NA, NA),            Instruction("CCF", NA, NA),
      Instruction("SCF", NA, NA),            Instruction("HALT", NA, NA),
      Instruction("STOP", NA, NA),           Instruction("NOP", NA, NA),
      Instruction("RLC", A, NA),             Instruction("RL", A, NA),
      Instruction("RRC", A, NA),             Instruction("RR", A, NA),
      Instruction("SLA", A, NA),             Instruction("SRA", A, NA),
      Instruction("SWAP", A, NA),
      Instruction("RLC", Imm(129), NA),      Instruction("RL", Imm(129), NA),
      Instruction("RRC", Imm(129), NA),      Instruction("RR", Imm(129), NA),
      Instruction("SLA", Imm(129), NA),      Instruction("SRA", Imm(129), NA),
      Instruction("SWAP", Imm(129), NA) }

RomAddrs == {0, 1, 2, 255, 256, 257, 32767, 32768, 65535}
RomVals  == {0, 1, 60, 255}

(***************************************************************************)
(* The state machine.                                                      *)
(***************************************************************************)
Cpu == [regs |-> regs, ram |-> ram, fault |-> fault]

Call(fn, addr, val, ret) == [fn |-> fn, addr |-> addr, val |-> val, ret |-> ret]

Init ==
    /\ regs \in InitRegs
    /\ ram = << >>
    /\ data \in RomImages
    /\ rom = ROM_new(data)
    /\ running = TRUE
    /\ fault = "none"
    /\ overflow_checks \in BOOLEAN
    /\ instr = NoInstr
    /\ pre = [regs |-> regs, ram |-> ram]
    /\ lastCall = Call("new", 0, 0, 0)
    /\ steps = 0

(* A caller dispatches one instruction to the interpreter. *)
Dispatch(ins) ==
    /\ fault = "none"
    /\ steps < MaxSteps
    /\ LET c == dispatch(Cpu, ins)
       IN /\ regs' = c.regs
          /\ ram' = c.ram
          /\ fault' = c.fault
    /\ instr' = ins
    /\ pre' = [regs |-> regs, ram |-> ram]
    /\ lastCall' = Call("dispatch", 0, 0, 0)
    /\ steps' = steps + 1
    /\ UNCHANGED <<rom, data, running, overflow_checks>>

(* The outer loop calls Cpu::tick. *)
Tick ==
    /\ fault = "none"
    /\ steps < MaxSteps
    /\ LET t == tick(Cpu, running)
       IN /\ regs' = t.cpu.regs
          /\ ram' = t.cpu.ram
          /\ fault' = t.cpu.fault
          /\ instr' = t.ins
          /\ running' = t.running
    /\ pre' = [regs |-> regs, ram |-> ram]
    /\ lastCall' = Call("tick", 0, 0, 0)
    /\ steps' = steps + 1
    /\ UNCHANGED <<rom, data, overflow_checks>>

Next == Tick \/ \E ins \in Instrs : Dispatch(ins)

Spec == Init /\ [][Next]_vars

(* The bus's calls on the cartridge, taken on their own. *)
RomWrite(addr, val) ==
    /\ fault = "none"
    /\ rom' = ROM_write_u8(rom, addr, val)
    /\ lastCall' = Call("write_u8", addr, val, 0)
    /\ UNCHANGED <<regs, ram, data, running, fault, overflow_checks, instr, pre, steps>>

RomRead(addr) ==
    /\ fault = "none"
    /\ IF ROM_read_u8_panics(addr)
       THEN /\ fault' = "index"
            /\ lastCall' = Call("read_u8", addr, 0, 0)
       ELSE /\ fault' = fault
            /\ lastCall' = Call("read_u8", addr, 0, ROM_read_u8(rom, addr))
    /\ UNCHANGED <<regs, ram, rom, data, running, overflow_checks, instr, pre, steps>>

NextRom ==
    \/ \E addr \in RomAddrs, val \in RomVals : RomWrite(addr, val)
    \/ \E addr \in RomAddrs : RomRead(addr)

SpecRom == Init /\ [][NextRom]_vars

(***************************************************************************)
(* Properties.                                                             *)
(***************************************************************************)
PreCpu == [regs |-> pre.regs, ram |-> pre.ram, fault |-> "none"]

Dispatched(op) == lastCall.fn = "dispatch" /\ instr.op = op

Pairs == {"AF", "BC", "DE", "HL"}

(* C1: PUSH of a register pair immediately followed by POP into a register *)
(* pair, with both stack bytes in RAM, leaves the destination pair equal   *)
(* to the pushed value and SP equal to its value before the PUSH.          *)
C1_PushPopRoundTrip ==
    [][ ( /\ Dispatched("PUSH") /\ fault = "none"
          /\ instr.i.k = "Reg" /\ instr.i.r \in Pairs
          /\ pre.regs.sp >= RomSize /\ pre.regs.sp + 1 <= 65535
          /\ lastCall'.fn = "dispatch" /\ instr'.op = "POP"
          /\ instr'.o.k = "Reg" /\ instr'.o.r \in Pairs )
        => /\ fault' = "none"
           /\ read_arg16(Cpu', instr'.o) = read_arg16(PreCpu, instr.i)
           /\ regs'.sp = pre.regs.sp ]_vars

(* C2: ADD leaves A = (x+y) mod 256, Z set iff that is zero, N cleared,    *)
(* H set iff there is a carry out of bit 3, C set iff x+y > 255.           *)
C2_AddResultAndFlags ==
    (Dispatched("ADD") /\ fault = "none") =>
        LET x == pre.regs.a
            y == read_arg8(PreCpu, instr.i)
        IN /\ regs.a = (x + y) % 256
           /\ get_flag(Cpu, "Z") <=> ((x + y) % 256 = 0)
           /\ ~get_flag(Cpu, "N")
           /\ get_flag(Cpu, "H") <=> ((x % 16) + (y % 16) > 15)
           /\ get_flag(Cpu, "C") <=> (x + y > 255)

Inverse(op) == IF op = "INC" THEN "DEC" ELSE "INC"

(* C3: on a register operand INC and DEC complete for every value, wrapping *)
(* at 0xFF and 0x00, neither changes the C flag, and either one directly    *)
(* after the other restores the operand.                                    *)
C3_IncDecRoundTrip ==
    [][ ( /\ lastCall'.fn = "dispatch" /\ instr'.op \in {"INC", "DEC"}
          /\ instr'.o.k = "Reg" /\ instr'.o.r # "F" )
        => /\ fault' = "none"
           /\ get_flag(Cpu', "C") = get_flag(Cpu, "C")
           /\ ( ( /\ lastCall.fn = "dispatch" /\ instr.op = Inverse(instr'.op)
                  /\ instr.o = instr'.o )
                => read_arg8(Cpu', instr'.o) = read_arg8(PreCpu, instr.o) ) ]_vars

(* C4: SWAP applied twice to a writable operand restores the operand, and   *)
(* leaves Z set iff the operand is zero.                                    *)
C4_SwapTwice ==
    [][ ( /\ Dispatched("SWAP") /\ fault = "none" /\ instr.o.k # "Imm"
          /\ lastCall'.fn = "dispatch" /\ instr'.op = "SWAP" /\ instr'.o = instr.o )
        => /\ fault' = "none"
           /\ read_arg8(Cpu', instr.o) = read_arg8(PreCpu, instr.o)
           /\ get_flag(Cpu', "Z") <=> (read_arg8(PreCpu, instr.o) = 0) ]_vars

(* C5: RLC leaves ((x << 1) | (x >> 7)) mod 256 with C = bit 7 of x; RRC    *)
(* leaves (x >> 1) | ((x mod 2) << 7) with C = bit 0 of x.                  *)
C5_RotateCircular ==
    LET x == read_arg8(PreCpu, instr.o)
    IN /\ (Dispatched("RLC") /\ instr.o.k = "Reg" /\ instr.o.r # "F" /\ fault = "none")
           => /\ read_arg8(Cpu, instr.o) = ((x * 2) % 256) + (x \div 128)
              /\ get_flag(Cpu, "C") <=> (Bit(x, 7) = 1)
       /\ (Dispatched("RRC") /\ instr.o.k = "Reg" /\ instr.o.r # "F" /\ fault = "none")
           => /\ read_arg8(Cpu, instr.o) = (x \div 2) + (x % 2) * 128
              /\ get_flag(Cpu, "C") <=> (Bit(x, 0) = 1)

(* C6: whatever write_u8 calls a plain ROM receives, none of them faults    *)
(* and read_u8 returns, at every address of the cartridge window, the byte  *)
(* the ROM was constructed with.                                            *)
C6_RomReadOnly ==
    /\ \A addr \in 0..(RomSize - 1) : ROM_read_u8(rom, addr) = ByteAt(data, addr)
    /\ lastCall.fn = "write_u8" => fault = "none"

(* A write_u8 of a byte that differs from the one held at a cartridge        *)
(* address has been made.                                                    *)
C6_Witness ==
    /\ lastCall.fn = "write_u8"
    /\ lastCall.addr < RomSize
    /\ lastCall.val # ByteAt(data, lastCall.addr)
    /\ fault = "none"

(* C7: the low four bits of register F are zero in every reachable state.   *)
C7_FlagLowNibbleZero == regs.f % 16 = 0

WriteBackOps == {"INC", "DEC", "RLC", "RL", "RRC", "RR", "SLA", "SRA", "SWAP",
                 "LD", "LD16", "POP", "INC16", "DEC16"}

(* C8: an operation that writes back to its operand, given an Immediate as  *)
(* the write target, ends in the invalid-operand fault with registers,      *)
(* flags, SP, PC and memory as they were before it.                         *)
C8_ImmediateTargetAtomic ==
    (lastCall.fn = "dispatch" /\ instr.op \in WriteBackOps /\ instr.o.k = "Imm") =>
        /\ fault = "invalid_operand"
        /\ regs = pre.regs
        /\ ram = pre.ram

(* C9: a tick that fetches and decodes an instruction also applies that     *)
(* instruction to the registers and memory before it returns.               *)
C9_TickDispatches ==
    [][ (lastCall'.fn = "tick" /\ fetch_instr(Cpu).cpu.fault = "none")
        => LET f == fetch_instr(Cpu)
               c == dispatch(f.cpu, f.ins)
           IN /\ regs' = c.regs
              /\ ram' = c.ram
              /\ fault' = c.fault ]_vars

(* C10: once HALT or STOP has been executed the CPU is suspended: a later   *)
(* tick fetches nothing and leaves PC unchanged.                            *)
C10_HaltSuspendsFetch ==
    [][ ( /\ lastCall.fn = "dispatch" /\ instr.op \in {"HALT", "STOP"}
          /\ lastCall'.fn = "tick" )
        => regs'.pc = regs.pc ]_vars

(* C11: a 16-bit memory read at addr, addr+1 <= 0xFFFF, returns            *)
(* (byte at addr+1) * 256 + (byte at addr), for a 16-bit indirect operand   *)
(* read and for POP.                                                        *)
C11_Read16LittleEndian ==
    LET LittleEndian(addr) ==
            mem_read_u8(PreCpu, addr + 1) * 256 + mem_read_u8(PreCpu, addr)
    IN /\ ( /\ Dispatched("LD16") /\ fault = "none"
            /\ instr.i.k = "Ind" /\ instr.o.k = "Reg"
            /\ get_address(PreCpu, instr.i) + 1 <= 65535 )
          => read_arg16(Cpu, instr.o) = LittleEndian(get_address(PreCpu, instr.i))
       /\ ( /\ Dispatched("POP") /\ fault = "none"
            /\ instr.o.k = "Reg" /\ instr.o.r \in Pairs
            /\ pre.regs.sp + 3 <= 65535 )
          => read_arg16(Cpu, instr.o) = LittleEndian(pre.regs.sp + 2)

SubFlags(c, x, y) ==
    /\ get_flag(c, "N")
    /\ get_flag(c, "Z") <=> ((x - y) % 256 = 0)
    /\ get_flag(c, "H") <=> ((x % 16) < (y % 16))
    /\ get_flag(c, "C") <=> (x < y)

(* C12: for every accumulator a and operand y, y > a included, SUB ends     *)
(* without fault with A = (a - y) mod 256, N set, Z set iff a = y, H set    *)
(* iff (a mod 16) < (y mod 16), C set iff a < y; SBC does the same with the *)
(* carry flag subtracted as well; CP sets the flags SUB would set and       *)
(* leaves A unchanged.                                                      *)
C12_SubBorrowSemantics ==
    LET a     == pre.regs.a
        y     == read_arg8(PreCpu, instr.i)
        carry == IF get_flag(PreCpu, "C") THEN 1 ELSE 0
    IN /\ Dispatched("SUB") =>
            /\ fault = "none"
            /\ regs.a = (a - y) % 256
            /\ SubFlags(Cpu, a, y)
       /\ Dispatched("SBC") =>
            /\ fault = "none"
            /\ regs.a = (a - y - carry) % 256
            /\ get_flag(Cpu, "N")
            /\ get_flag(Cpu, "Z") <=> ((a - y - carry) % 256 = 0)
            /\ get_flag(Cpu, "H") <=> ((a % 16) < (y % 16) + carry)
            /\ get_flag(Cpu, "C") <=> (a < y + carry)
       /\ Dispatched("CP") =>
            /\ fault = "none"
            /\ regs.a = a
            /\ SubFlags(Cpu, a, y)

(* C13: LD HL,SP+n with n a two's-complement displacement in -128..127      *)
(* leaves HL = (SP + n) mod 65536 and SP unchanged.                         *)
C13_LoadHLSPSigned ==
    Dispatched("LDHL16") =>
        /\ fault = "none"
        /\ read_reg_pair(regs.h, regs.l) = (pre.regs.sp + instr.i.v) % 65536
        /\ regs.sp = pre.regs.sp

(* C14: ADD16 leaves HL = (hl + v) mod 65536, H set iff there is a carry    *)
(* out of bit 11, C set iff hl + v > 65535, and Z and N as they were.       *)
C14_Add16ResultAndFlags ==
    Dispatched("ADD16") =>
        LET hl == read_reg_pair(pre.regs.h, pre.regs.l)
            v  == read_arg16(PreCpu, instr.i)
        IN /\ fault = "none"
           /\ read_reg_pair(regs.h, regs.l) = (hl + v) % 65536
           /\ get_flag(Cpu, "H") <=> ((hl % 4096) + (v % 4096) > 4095)
           /\ get_flag(Cpu, "C") <=> (hl + v > 65535)
           /\ get_flag(Cpu, "Z") = get_flag(PreCpu, "Z")
           /\ get_flag(Cpu, "N") = get_flag(PreCpu, "N")

====
